---- MODULE Spec2Model ----
(***************************************************************************)
(* Gym SaaS backend: the gym directory (routes/gyms.py, crud.py) and the   *)
(* trial booking engine (routes/trials.py) over the relational store of    *)
(* models.py.  Every HTTP handler is one atomic action of Spec; SpecRace   *)
(* splits book_trial into its query and its insert, run by two workers.    *)
(* Columns without a role in any decision (names, addresses, timestamps,   *)
(* scheduled_at) are not carried.  Request bodies are taken as the routes  *)
(* read them (status_update of TrialStatusUpdate, gym_id of the booking    *)
(* request), also where schemas.py does not declare them.                  *)
(***************************************************************************)
EXTENDS Integers, FiniteSets, Sequences, TLC

\* ------------------------------------------------------------------ bounds
MaxGyms == 2
MaxTrials == 2

\* ------------------------------------------------------------ enumerations
\* models.UserRole is a plain enum.Enum: a member is never equal to a str.
UserRole_seeker == "UserRole.seeker"
UserRole_gym_owner == "UserRole.gym_owner"
UserRole_customer == "UserRole.customer"
UserRole_admin == "UserRole.admin"

\* models.TrialStatus mixes in str: a member equals (and hashes as) its value.
TrialStatus_pending == "pending"
TrialStatus_accepted == "accepted"
TrialStatus_rejected == "rejected"

\* Rows of the users table: id -> role.
RoleOf == (1 :> UserRole_seeker) @@ (2 :> UserRole_gym_owner) @@
          (3 :> UserRole_gym_owner) @@ (4 :> UserRole_admin) @@
          (5 :> UserRole_customer)

Users == DOMAIN RoleOf

\* Values a client may send as status_update.
StatusInputs == {"pending", "accepted", "rejected", "approved"}

\* Values a client may send for GymCreate.trial_available and for
\* GymUpdate.trial_available ("unset": the field is absent).
GymCreateInputs == {"true", "false"}
GymUpdateInputs == {"unset", "true", "false"}

\* Path and body ids a client may send: every id ever issued, and one more.
GymIds == 1..(MaxGyms + 1)
TrialIds == 1..(MaxTrials + 1)

\* Optional[...] results of .first().
None == << >>
Some(x) == << x >>

\* Workers serving requests concurrently.
Procs == {1, 2}
NoReq == [user |-> 0, gym |-> 0]

VARIABLES gyms, bookings, nextGymId, nextTrialId, resp, pc, req

vars == << gyms, bookings, nextGymId, nextTrialId, resp, pc, req >>
db == << gyms, bookings, nextGymId, nextTrialId >>

\* The request being answered and its status code; NoResp between requests.
Response(op, c, id, arg, code) ==
    [op |-> op, caller |-> c, id |-> id, arg |-> arg, code |-> code]
NoResp == Response("none", 0, 0, "", 0)

Init ==
    /\ gyms = << >>
    /\ bookings = << >>
    /\ nextGymId = 1
    /\ nextTrialId = 1
    /\ resp = NoResp
    /\ pc = [p \in Procs |-> "idle"]
    /\ req = [p \in Procs |-> NoReq]

\* ------------------------------------------------------------------- crud
\* Variant: the id filter is dropped, so the first gym row answers any id.
crud_get_gym_first(gs, gym_id) ==
    IF DOMAIN gs = {} THEN None
    ELSE Some(gs[CHOOSE g \in DOMAIN gs : \A h \in DOMAIN gs : g <= h])

crud_get_gym(gs, gym_id) ==
    IF gym_id \in DOMAIN gs THEN Some(gs[gym_id]) ELSE None

crud_create_gym(gs, id, owner_id, trial_available) ==
    gs @@ (id :> [owner_id |-> owner_id, trial_available |-> (trial_available = "true")])

crud_update_gym(gs, gym_id, upd) ==
    IF upd = "unset" THEN gs
    ELSE [gs EXCEPT ![gym_id].trial_available = (upd = "true")]

\* Gym.trial_bookings is cascade="all, delete-orphan", gym_id ondelete CASCADE.
CascadeTrialBookings(bs, gym_id) ==
    [t \in {x \in DOMAIN bs : bs[x].gym_id # gym_id} |-> bs[t]]

crud_delete_gym(gs, gym_id) ==
    [g \in DOMAIN gs \ {gym_id} |-> gs[g]]

\* ----------------------------------------------------------- routes/gyms.py
\* Variant: only the gym_owner role may create gyms.
AuthorizeGymCreation_owner_only(c) ==
    ~(RoleOf[c] \notin {UserRole_gym_owner})

AuthorizeGymCreation(c) ==
    ~(RoleOf[c] \notin {UserRole_gym_owner, UserRole_admin})

AuthorizeGymMutation(c, gym) ==
    ~(RoleOf[c] \notin {UserRole_gym_owner, UserRole_admin} \/ gym.owner_id # c)

create_gym(c, ta) ==
    /\ UNCHANGED << pc, req >>
    /\ IF ~AuthorizeGymCreation(c)
       THEN /\ resp' = Response("create_gym", c, 0, ta, 403)
            /\ UNCHANGED db
       ELSE /\ nextGymId <= MaxGyms
            /\ gyms' = crud_create_gym(gyms, nextGymId, c, ta)
            /\ nextGymId' = nextGymId + 1
            /\ resp' = Response("create_gym", c, 0, ta, 200)
            /\ UNCHANGED << bookings, nextTrialId >>

update_gym(c, gym_id, upd) ==
    LET gym == crud_get_gym(gyms, gym_id) IN
    /\ UNCHANGED << pc, req >>
    /\ IF gym = None
       THEN /\ resp' = Response("update_gym", c, gym_id, upd, 404)
            /\ UNCHANGED db
       ELSE IF ~AuthorizeGymMutation(c, gym[1])
       THEN /\ resp' = Response("update_gym", c, gym_id, upd, 403)
            /\ UNCHANGED db
       ELSE /\ gyms' = crud_update_gym(gyms, gym_id, upd)
            /\ resp' = Response("update_gym", c, gym_id, upd, 200)
            /\ UNCHANGED << bookings, nextGymId, nextTrialId >>

delete_gym(c, gym_id) ==
    LET gym == crud_get_gym(gyms, gym_id) IN
    /\ UNCHANGED << pc, req >>
    /\ IF gym = None
       THEN /\ resp' = Response("delete_gym", c, gym_id, "", 404)
            /\ UNCHANGED db
       ELSE IF ~AuthorizeGymMutation(c, gym[1])
       THEN /\ resp' = Response("delete_gym", c, gym_id, "", 403)
            /\ UNCHANGED db
       ELSE /\ gyms' = crud_delete_gym(gyms, gym_id)
            /\ bookings' = CascadeTrialBookings(bookings, gym_id)
            /\ resp' = Response("delete_gym", c, gym_id, "", 200)
            /\ UNCHANGED << nextGymId, nextTrialId >>

\* --------------------------------------------------------- routes/trials.py
\* Variant: the duplicate query has no status filter, so any earlier booking
\* of the user for the gym counts.
existing_trial_any_status(bs, c, gym_id) ==
    LET m == {t \in DOMAIN bs : bs[t].gym_id = gym_id /\ bs[t].user_id = c}
    IN IF m = {} THEN None
       ELSE Some(bs[CHOOSE t \in m : \A u \in m : t <= u])

\* Variant: the duplicate query filters on a status no booking ever has.
existing_trial_active(bs, c, gym_id) ==
    LET m == {t \in DOMAIN bs : /\ bs[t].gym_id = gym_id
                                /\ bs[t].user_id = c
                                /\ bs[t].status = "active"}
    IN IF m = {} THEN None
       ELSE Some(bs[CHOOSE t \in m : \A u \in m : t <= u])

\* existing_trial: the pending booking of this user for this gym, if any.
existing_trial(bs, c, gym_id) ==
    LET m == {t \in DOMAIN bs : /\ bs[t].gym_id = gym_id
                                /\ bs[t].user_id = c
                                /\ bs[t].status = "pending"}
    IN IF m = {} THEN None
       ELSE Some(bs[CHOOSE t \in m : \A u \in m : t <= u])

\* Variant: the row takes its user_id from the request body's gym_id.
add_trial_booking_swapped(bs, id, c, gym_id) ==
    bs @@ (id :> [user_id |-> gym_id, gym_id |-> gym_id, status |-> TrialStatus_pending])

\* Variant: a partial unique index on (user_id, gym_id) where status is
\* pending makes the insert of a second pending row a no-op.
add_trial_booking_unique(bs, id, c, gym_id) ==
    IF \E t \in DOMAIN bs : /\ bs[t].user_id = c /\ bs[t].gym_id = gym_id
                             /\ bs[t].status = TrialStatus_pending
    THEN bs
    ELSE bs @@ (id :> [user_id |-> c, gym_id |-> gym_id, status |-> TrialStatus_pending])

\* db.add(TrialBooking(user_id, gym_id, status="pending")); db.commit()
add_trial_booking(bs, id, c, gym_id) ==
    bs @@ (id :> [user_id |-> c, gym_id |-> gym_id, status |-> TrialStatus_pending])

book_trial(c, gym_id) ==
    /\ UNCHANGED << pc, req >>
    /\ IF crud_get_gym(gyms, gym_id) = None
       THEN /\ resp' = Response("book_trial", c, gym_id, "", 404)
            /\ UNCHANGED db
       ELSE IF existing_trial(bookings, c, gym_id) # None
       THEN /\ resp' = Response("book_trial", c, gym_id, "", 400)
            /\ UNCHANGED db
       ELSE /\ nextTrialId <= MaxTrials
            /\ bookings' = add_trial_booking(bookings, nextTrialId, c, gym_id)
            /\ nextTrialId' = nextTrialId + 1
            /\ resp' = Response("book_trial", c, gym_id, "", 200)
            /\ UNCHANGED << gyms, nextGymId >>

get_trial(bs, trial_id) ==
    IF trial_id \in DOMAIN bs THEN Some(bs[trial_id]) ELSE None

\* Variant: the booking's requester is let through as well.
AuthorizeTrialStatusUpdate_requester(c, trial) ==
    ~(gyms[trial.gym_id].owner_id # c /\ trial.user_id # c /\ RoleOf[c] # "admin")

\* trial.gym.owner_id != current_user.id and current_user.role != "admin"
AuthorizeTrialStatusUpdate(c, trial) ==
    ~(gyms[trial.gym_id].owner_id # c /\ RoleOf[c] # "admin")

\* Variant: pending is not a target a client may ask for.
allowed_statuses_terminal == {TrialStatus_accepted, TrialStatus_rejected}

allowed_statuses == {TrialStatus_pending, TrialStatus_accepted, TrialStatus_rejected}

\* Variant: the assignment is made but never committed.
set_trial_status_lost(bs, trial_id, status_update) == bs

\* trial.status = request.status_update; db.commit(); db.refresh(trial)
set_trial_status(bs, trial_id, status_update) ==
    [bs EXCEPT ![trial_id].status = status_update]

update_trial_status(c, trial_id, status_update) ==
    LET trial == get_trial(bookings, trial_id) IN
    /\ UNCHANGED << pc, req >>
    /\ IF trial = None
       THEN /\ resp' = Response("update_trial_status", c, trial_id, status_update, 404)
            /\ UNCHANGED db
       ELSE IF ~AuthorizeTrialStatusUpdate(c, trial[1])
       THEN /\ resp' = Response("update_trial_status", c, trial_id, status_update, 403)
            /\ UNCHANGED db
       ELSE IF status_update \notin allowed_statuses
       THEN /\ resp' = Response("update_trial_status", c, trial_id, status_update, 400)
            /\ UNCHANGED db
       ELSE /\ bookings' = set_trial_status(bookings, trial_id, status_update)
            /\ resp' = Response("update_trial_status", c, trial_id, status_update, 200)
            /\ UNCHANGED << gyms, nextGymId, nextTrialId >>

\* ------------------------------------------------------------ sequential
\* Requests are served one at a time: a handler runs when no response is
\* outstanding, and the request ends (get_db closes the session) once the
\* response has been returned.
close_session ==
    /\ resp # NoResp
    /\ resp' = NoResp
    /\ UNCHANGED << db, pc, req >>

Next ==
    \/ resp = NoResp /\ \E c \in Users, ta \in GymCreateInputs : create_gym(c, ta)
    \/ resp = NoResp /\ \E c \in Users, g \in GymIds, u \in GymUpdateInputs : update_gym(c, g, u)
    \/ resp = NoResp /\ \E c \in Users, g \in GymIds : delete_gym(c, g)
    \/ resp = NoResp /\ \E c \in Users, g \in GymIds : book_trial(c, g)
    \/ resp = NoResp /\ \E c \in Users, t \in TrialIds, s \in StatusInputs : update_trial_status(c, t, s)
    \/ close_session

Spec == Init /\ [][Next]_vars

\* ------------------------------------------------------------ concurrent
\* Two workers serve POST /trials at once.  trials.py 27-48 (the gym lookup
\* and the existing_trial query) and trials.py 51-59 (add, commit) are two
\* steps of a worker; nothing in models.py makes (user_id, gym_id, pending)
\* unique.  Only gym creation and booking requests run here, so every
\* booking of SpecRace is pending from its insert on.
BookCheck(p, c, gym_id) ==
    /\ pc[p] = "idle"
    /\ IF crud_get_gym(gyms, gym_id) = None
       THEN /\ resp' = Response("book_trial", c, gym_id, "", 404)
            /\ UNCHANGED << db, pc, req >>
       ELSE IF existing_trial(bookings, c, gym_id) # None
       THEN /\ resp' = Response("book_trial", c, gym_id, "", 400)
            /\ UNCHANGED << db, pc, req >>
       ELSE /\ pc' = [pc EXCEPT ![p] = "insert"]
            /\ req' = [req EXCEPT ![p] = [user |-> c, gym |-> gym_id]]
            /\ UNCHANGED << db, resp >>

BookInsert(p) ==
    /\ pc[p] = "insert"
    /\ nextTrialId <= MaxTrials
    /\ bookings' = add_trial_booking(bookings, nextTrialId, req[p].user, req[p].gym)
    /\ nextTrialId' = nextTrialId + 1
    /\ resp' = Response("book_trial", req[p].user, req[p].gym, "", 200)
    /\ pc' = [pc EXCEPT ![p] = "done"]
    /\ UNCHANGED << gyms, nextGymId, req >>

NextRace ==
    \/ \E c \in Users, ta \in GymCreateInputs : create_gym(c, ta)
    \/ \E p \in Procs, c \in Users, g \in GymIds : BookCheck(p, c, g)
    \/ \E p \in Procs : BookInsert(p)

SpecRace == Init /\ [][NextRace]_vars

\* ================================================================ claims
PendingOf(bs, u, g) ==
    {t \in DOMAIN bs : bs[t].user_id = u /\ bs[t].gym_id = g /\ bs[t].status = "pending"}

NonPendingOf(bs, u, g) ==
    {t \in DOMAIN bs : bs[t].user_id = u /\ bs[t].gym_id = g /\ bs[t].status # "pending"}

\* A step of Spec in which the handler op answers a request.
Handled(op) == resp = NoResp /\ resp'.op = op

\* The owner of the gym of booking t, in the state before the step.
GymOwnerOf(t) == gyms[bookings[t].gym_id].owner_id

\* C1: under one-at-a-time book_trial and update_trial_status requests, every
\* (requester, gym) pair has at most one pending booking.
C1_AtMostOnePending ==
    \A u \in Users, g \in GymIds : Cardinality(PendingOf(bookings, u, g)) <= 1

\* C2: when two concurrent booking requests of one requester for one gym have
\* both passed the duplicate query and both inserted, that (requester, gym)
\* pair has two pending bookings.
C2_RaceYieldsTwoPending ==
    \A p \in Procs, q \in Procs :
        (p # q /\ pc[p] = "done" /\ pc[q] = "done" /\ req[p] = req[q])
            => Cardinality(PendingOf(bookings, req[p].user, req[p].gym)) >= 2

C2_TwoPendingReached ==
    \E p \in Procs, q \in Procs :
        /\ p # q /\ pc[p] = "done" /\ pc[q] = "done" /\ req[p] = req[q]
        /\ Cardinality(PendingOf(bookings, req[p].user, req[p].gym)) = 2

\* C3: every change of a booking's status is pending -> accepted or
\* pending -> rejected; an accepted or rejected booking never changes again.
C3_OnlyPendingToTerminal ==
    [][\A t \in DOMAIN bookings \cap DOMAIN bookings' :
          bookings'[t].status # bookings[t].status
              => /\ bookings[t].status = "pending"
                 /\ bookings'[t].status \in {"accepted", "rejected"}]_vars

\* C4: update_trial_status by the gym's owner or an admin on a booking that is
\* accepted or rejected does not succeed (the claim asks for a conflict error;
\* any error response is accepted here) and leaves the status as it was.
C4_TerminalUpdateFails ==
    [][(/\ Handled("update_trial_status")
        /\ resp'.id \in DOMAIN bookings
        /\ (GymOwnerOf(resp'.id) = resp'.caller \/ RoleOf[resp'.caller] = UserRole_admin)
        /\ bookings[resp'.id].status \in {"accepted", "rejected"})
           => /\ resp'.code # 200
              /\ bookings'[resp'.id].status = bookings[resp'.id].status]_vars

\* C5: update_trial_status by a caller who neither owns the booking's gym nor
\* is an admin answers 403 for every requested status, valid or not, and
\* changes no booking.
C5_UnauthorizedForbidden ==
    [][(/\ Handled("update_trial_status")
        /\ resp'.id \in DOMAIN bookings
        /\ GymOwnerOf(resp'.id) # resp'.caller
        /\ RoleOf[resp'.caller] # UserRole_admin)
           => /\ resp'.code = 403
              /\ bookings' = bookings
              /\ gyms' = gyms]_vars

C5_RequesterWasDenied ==
    /\ resp.op = "update_trial_status"
    /\ resp.code = 403
    /\ resp.arg = "accepted"
    /\ resp.id \in DOMAIN bookings
    /\ bookings[resp.id].user_id = resp.caller
    /\ bookings[resp.id].status = "pending"

\* C6: update_trial_status on an existing booking is refused with 403 exactly
\* when the caller neither owns the booking's gym nor has the admin role: an
\* admin who does not own the gym is let through.
C6_AdminOrOwnerAllowed ==
    [][(Handled("update_trial_status") /\ resp'.id \in DOMAIN bookings)
           => ((resp'.code # 403) <=>
                  (GymOwnerOf(resp'.id) = resp'.caller \/ RoleOf[resp'.caller] = UserRole_admin))]_vars

\* C7: update_gym and delete_gym on an existing gym are refused with 403
\* exactly when the caller is neither an admin nor a gym_owner who owns the
\* gym, and a refused request leaves the gyms as they were.
C7_GymMutationAuthorization ==
    [][((Handled("update_gym") \/ Handled("delete_gym")) /\ resp'.id \in DOMAIN gyms)
           => /\ (resp'.code # 403) <=>
                    (/\ RoleOf[resp'.caller] \in {UserRole_gym_owner, UserRole_admin}
                     /\ (RoleOf[resp'.caller] = UserRole_admin
                            \/ gyms[resp'.id].owner_id = resp'.caller))
              /\ (resp'.code = 403) => gyms' = gyms]_vars

C10_MissingGymNotFound ==
    [][/\ (Handled("book_trial") /\ resp'.id \notin DOMAIN gyms)
             => /\ resp'.code = 404
                /\ bookings' = bookings
                /\ nextTrialId' = nextTrialId
       /\ \A t \in DOMAIN bookings' \ DOMAIN bookings :
             bookings'[t].gym_id \in DOMAIN gyms]_vars

C10_MissingGymRefused ==
    /\ resp.op = "book_trial"
    /\ resp.code = 404
    /\ resp.id \notin DOMAIN gyms
    /\ gyms # << >>
    /\ bookings # << >>

\* C11: update_trial_status by the gym's owner or an admin on an existing
\* booking, asking for a status outside {pending, accepted, rejected}, answers
\* 400 and leaves the booking's status as it was.
C11_InvalidStatusIsBadRequest ==
    [][(/\ Handled("update_trial_status")
        /\ resp'.id \in DOMAIN bookings
        /\ (GymOwnerOf(resp'.id) = resp'.caller \/ RoleOf[resp'.caller] = UserRole_admin)
        /\ resp'.arg \notin {"pending", "accepted", "rejected"})
           => /\ resp'.code = 400
              /\ bookings'[resp'.id].status = bookings[resp'.id].status]_vars

C13_OwnerUpdatePersists ==
    [][/\ (/\ Handled("update_trial_status")
           /\ resp'.id \in DOMAIN bookings
           /\ GymOwnerOf(resp'.id) = resp'.caller
           /\ bookings[resp'.id].status = "pending"
           /\ resp'.arg \in {"accepted", "rejected"})
              => /\ resp'.code = 200
                 /\ resp'.id \in DOMAIN bookings'
                 /\ bookings'[resp'.id].status = resp'.arg
       /\ \A t \in DOMAIN bookings \cap DOMAIN bookings' :
             bookings'[t].status # bookings[t].status
                 => /\ Handled("update_trial_status")
                    /\ resp'.id = t
                    /\ resp'.code = 200]_vars

C13_OwnerAccepted ==
    /\ resp.op = "update_trial_status"
    /\ resp.arg = "accepted"
    /\ resp.code = 200
    /\ resp.id \in DOMAIN bookings
    /\ bookings[resp.id].status = "accepted"
    /\ gyms[bookings[resp.id].gym_id].owner_id = resp.caller
    /\ RoleOf[bookings[resp.id].user_id] = UserRole_seeker

\* C14: a book_trial answered 200 adds exactly one booking, under an id no
\* booking has or had, with the caller as user_id, the requested gym_id and
\* status pending, and leaves every earlier booking and every gym as it was.
C14_BookingCreatedFrame ==
    [][(Handled("book_trial") /\ resp'.code = 200)
           => /\ nextTrialId \notin DOMAIN bookings
              /\ \A t \in DOMAIN bookings : t < nextTrialId
              /\ DOMAIN bookings' = DOMAIN bookings \cup {nextTrialId}
              /\ bookings'[nextTrialId] = [user_id |-> resp'.caller,
                                           gym_id |-> resp'.id,
                                           status |-> "pending"]
              /\ \A t \in DOMAIN bookings : bookings'[t] = bookings[t]
              /\ nextTrialId' > nextTrialId
              /\ gyms' = gyms]_vars

C14_SecondBookingCreated ==
    /\ resp.op = "book_trial"
    /\ resp.code = 200
    /\ Cardinality(DOMAIN bookings) = 2
    /\ (nextTrialId - 1) \in DOMAIN bookings
    /\ bookings[nextTrialId - 1].user_id = resp.caller
    /\ bookings[nextTrialId - 1].gym_id = resp.id
    /\ \E t \in DOMAIN bookings : bookings[t].status # "pending"

\* C15: the duplicate check of book_trial counts pending bookings only.  A
\* book_trial for an existing gym is answered 400 exactly when the caller has
\* a pending booking for that gym; otherwise, however many accepted or
\* rejected bookings the caller has there, it is answered 200 and adds a
\* pending booking next to them.
C15_OnlyPendingBlocks ==
    [][(Handled("book_trial") /\ resp'.id \in DOMAIN gyms)
           => IF PendingOf(bookings, resp'.caller, resp'.id) # {}
              THEN resp'.code = 400
              ELSE /\ resp'.code = 200
                   /\ Cardinality(PendingOf(bookings', resp'.caller, resp'.id)) = 1
                   /\ NonPendingOf(bookings', resp'.caller, resp'.id)
                         = NonPendingOf(bookings, resp'.caller, resp'.id)]_vars

C15_RebookedAfterDecision ==
    /\ resp.op = "book_trial"
    /\ resp.code = 200
    /\ NonPendingOf(bookings, resp.caller, resp.id) # {}
    /\ Cardinality(PendingOf(bookings, resp.caller, resp.id)) = 1

====
